---- MODULE Spec2Model ----
(***************************************************************************)
(* The file logger of memcached (extensions/loggers/file_logger.c): many   *)
(* producer threads format records and append them, de-duplicated, to the  *)
(* active one of two buffers under one mutex; one flusher thread swaps the *)
(* buffers and writes the passive one to numbered log files.               *)
(*                                                                         *)
(* A byte is a string.  A formatted record is a sequence of bytes: a       *)
(* prefix (timestamp and severity, prefixlen bytes) followed by the body,  *)
(* whose last byte is the newline "nl".  Sizes are scaled down: a record   *)
(* has 3 bytes, lastlog.buffer has LastLogSize bytes (512 in the source),  *)
(* the text "message repeated " of the summary line is the one byte "R".   *)
(***************************************************************************)
EXTENDS Integers, Sequences, FiniteSets, TLC

\* ----------------------------------------------------------------- bounds
\* the number of logger_log calls of one run
MaxLogs == 4
\* the configured buffersize (buffersz) of the ordinary configuration
BufferSz == 7
\* a configured buffersize no record fits into
SmallBufferSz == 3
\* the configured cyclesize (cyclesz)
CycleSz == 4
\* sizeof(lastlog.buffer), scaled down from 512
LastLogSize == 4
\* the largest sequence number a file name of the model may carry
MaxFileId == 5
\* the number of logger_log calls of a run that ends a run of repeats while
\* another producer logs
DedupLogs == 5
\* the number of times a thread calls logger_shutdown again after it returned
MaxRecalls == 1

\* ---------------------------------------------------------------- threads
Producers == {"p1", "p2"}
Flusher == "fl"
Stopper == "sd"
\* a second thread that calls logger_shutdown, and the thread that runs the
\* atexit handlers
Stopper2 == "sd2"
Exiter == "ex"
Stoppers == {Stopper, Stopper2}
Threads == Producers \cup {Flusher, Exiter} \cup Stoppers
NoThread == "none"
NullHandle == -1
FileIds == 0 .. MaxFileId

\* ---------------------------------------------------------------- records
\* what logger_log hands to add_log_entry: the formatted line and prefixlen
RecA == [msg |-> <<"t1", "a", "nl">>, prefixlen |-> 1]
RecA2 == [msg |-> <<"t2", "a", "nl">>, prefixlen |-> 1]
RecB == [msg |-> <<"t1", "b", "nl">>, prefixlen |-> 1]
Records == {RecA, RecA2, RecB}
NoRec == [msg |-> <<>>, prefixlen |-> 0]

VARIABLES
    buffersz,    \* static size_t buffersz
    cyclesz,     \* static size_t cyclesz
    buffers,     \* buffers[b]: the bytes data[0 .. offset-1] of buffer b
    currbuffer,  \* static int currbuffer
    lastlog,     \* static struct lastlog: buffer, count, offset
    run,         \* static volatile int run
    mutex,       \* the thread that holds the mutex, or NoThread
    pc,          \* where each thread stands
    msg,         \* msg[p]: the record producer p is adding
    pend,        \* pend[t]: the local buffer[80] of flush_last_log of thread t
    fp,          \* logger_thead_main: HANDLE fp
    currsize,    \* logger_thead_main: size_t currsize
    this,        \* logger_thead_main: int this
    towrite,     \* flush_pending_io: size_t towrite
    ret,         \* flush_pending_io: size_t ret
    elapsed,     \* whether tp.tv_sec >= next holds at the next test of it
    next_id,     \* open_logfile: static unsigned int next_id
    disk,        \* the log directory: file id -> file
    opened,      \* the ids of the files the logger opened, in order
    freed,       \* whether buffers[0].data and buffers[1].data were freed
    uaf,         \* whether a byte was copied into a freed buffer
    appended,    \* every byte copied into a buffer, in the order of the copies
    calls,       \* the records handed to add_log_entry, in lock order
    single,      \* whether one producer does all the logging and calls is kept
    nlogs,       \* the number of logger_log calls so far
    stopmark,    \* Len(appended) when logger_shutdown cleared run, or -1
    atstop,      \* when logger_shutdown was called: the calls so far, and whether
                 \* every producer had returned from them
    atstart,     \* the ids of the files that were on disk at startup
    blk,         \* blk[t]: "blocked" since t found no room, "freed" after a swap
    maxlogs,     \* the number of logger_log calls the host makes in this run
    init,        \* memcached_extensions_initialize: what it returned, whether it
                 \* registered the descriptor, and the step that failed
    diskok,      \* whether iops.write can still write bytes
    joins,       \* the number of cb_join_thread(tid) calls that were made
    recalls      \* the number of repeated logger_shutdown calls so far

vars == <<buffersz, cyclesz, buffers, currbuffer, lastlog, run, mutex, pc, msg,
          pend, fp, currsize, this, towrite, ret, elapsed, next_id, disk,
          opened, freed, uaf, appended, calls, single, nlogs, stopmark, atstop,
          atstart, blk, maxlogs, init, diskok, joins, recalls>>

prodVars == <<msg, calls, single, nlogs>>
flushVars == <<fp, currsize, this, towrite, ret, elapsed, next_id, disk, opened, freed>>
confVars == <<buffersz, cyclesz, atstart>>
hostVars == <<maxlogs, init, diskok, joins, recalls>>

\* ---------------------------------------------------------- pure functions
Digits == <<"0", "1", "2", "3", "4", "5", "6", "7", "8", "9">>

\* the decimal digits of n, as snprintf's %u prints them
RECURSIVE Utoa(_)
Utoa(n) == IF n < 10 THEN <<Digits[n + 1]>>
           ELSE Utoa(n \div 10) \o <<Digits[(n % 10) + 1]>>

\* snprintf(buffer, sizeof(buffer), "message repeated %u times\n", count)
Summary(count) == <<"R">> \o Utoa(count) \o <<"nl">>

\* flush_last_log: if (lastlog.count > 1)
ShouldFlushLast(count) == count > 1

\* NoRoom without the size of the record
NoRoomIgnoresSize(offset, size) == offset >= buffersz

\* NoRoom with > for >=
NoRoomOffByOne(offset, size) == offset + size > buffersz

\* do_add_log_entry: (buffers[currbuffer].offset + size) >= buffersz
NoRoom(offset, size) == offset + size >= buffersz

\* offset > (buffersz * 0.75)
OverThreshold(offset) == 4 * offset > 3 * buffersz

\* Other without the flip
OtherSame(b) == b

\* currbuffer = (currbuffer == 0) ? 1 : 0
Other(b) == IF b = 0 THEN 1 ELSE 0

\* memcmp(lastlog.buffer + lastlog.offset, msg + prefixlen, size - prefixlen) == 0;
\* a byte past the end of lastlog.buffer compares unequal
SameAsLast(r) ==
    \A i \in 1 .. (Len(r.msg) - r.prefixlen) :
        /\ lastlog.offset + i <= Len(lastlog.buffer)
        /\ lastlog.buffer[lastlog.offset + i] = r.msg[r.prefixlen + i]

\* memcpy(lastlog.buffer, msg, size)
Memcpy(dst, src) == [i \in 1 .. Len(dst) |-> IF i <= Len(src) THEN src[i] ELSE dst[i]]

\* add_log_entry: size < sizeof(lastlog.buffer)
FitsLastLog(r) == Len(r.msg) < LastLogSize

\* add_log_entry, a record that does not fit: lastlog.buffer[0] = '\0',
\* lastlog.count = 0, lastlog.offset = 0
ClearedLastLog == [buffer |-> Memcpy(lastlog.buffer, <<"nul">>), count |-> 0, offset |-> 0]

\* Exists for an open_logfile that does not probe
ExistsNever(id) == FALSE

\* access(fname, F_OK) == 0
Exists(id) == disk[id].exists

\* open_logfile: the first id from next_id on whose file name is unused
RECURSIVE Probe(_)
Probe(id) == IF id \in FileIds /\ Exists(id) THEN Probe(id + 1) ELSE id

\* NeedRotate with twice the threshold
NeedRotateLate(size) == size > 2 * cyclesz

\* logger_thead_main: currsize > cyclesz
NeedRotate(size) == size > cyclesz

\* DrainCond for a thread that closes the file without the drain loop
DrainNever(offset) == FALSE

\* logger_thead_main: while (buffers[currbuffer].offset)
DrainCond(offset) == offset # 0

\* MutexForIO without cb_mutex_exit before the flush
MutexKept == Flusher

\* the owner of the mutex after cb_mutex_exit ahead of the file IO
MutexForIO == NoThread

\* Chunk without ptr += nw
ChunkFromStart(data, nw) == SubSeq(data, 1, nw)

\* the bytes iops.write takes from ptr: nw bytes, ret - towrite bytes into the buffer
Chunk(data, nw) == SubSeq(data, ret - towrite + 1, ret - towrite + nw)

\* Reset without lb->offset = 0
ResetNever(data) == data

\* flush_pending_io: lb->offset = 0, after which the buffer holds no bytes
Reset(data) == <<>>

\* a clock that never reaches next
TimedOutNever == {FALSE}

\* logger_thead_main: (time_t)tp.tv_sec >= next, read after cb_cond_timedwait
\* returned on a signal of cond (either value) or on its timeout (true)
TimedOut == BOOLEAN

NoFile == [exists |-> FALSE, data |-> <<>>, synced |-> 0, isopen |-> FALSE]
OldFile == [exists |-> TRUE, data |-> <<"old">>, synced |-> 1, isopen |-> FALSE]

\* ------------------------------------------------------------------- Init
\* the statics, the configuration and the environment of a run: one: whether
\* one producer does all the logging; sizes: the configured buffersize; olds:
\* the sets of files on disk; limit: the number of logger_log calls; done:
\* whether memcached_extensions_initialize has returned EXTENSION_SUCCESS
Configured(one, sizes, olds, limit, done) ==
    /\ buffersz \in sizes
    /\ cyclesz = CycleSz
    /\ buffers = [b \in {0, 1} |-> <<>>]
    /\ currbuffer = 0
    /\ lastlog = [buffer |-> [i \in 1 .. LastLogSize |-> "nul"], count |-> 0, offset |-> 0]
    /\ run = 1
    /\ mutex = NoThread
    /\ pc = [t \in Threads |-> IF t = Flusher
                               THEN (IF done THEN "open" ELSE "nothread")
                               ELSE "idle"]
    /\ msg = [p \in Producers |-> NoRec]
    /\ pend = [t \in Producers \cup Stoppers |-> <<>>]
    /\ fp = NullHandle
    /\ currsize = 0
    /\ this = 0
    /\ towrite = 0
    /\ ret = 0
    /\ elapsed = TRUE
    /\ next_id = 0
    /\ atstart \in olds
    /\ disk = [id \in FileIds |-> IF id \in atstart THEN OldFile ELSE NoFile]
    /\ opened = <<>>
    /\ freed = FALSE
    /\ uaf = FALSE
    /\ appended = <<>>
    /\ calls = <<>>
    /\ single = one
    /\ nlogs = 0
    /\ stopmark = -1
    /\ atstop = [logs |-> -1, idle |-> FALSE]
    /\ blk = [t \in Producers \cup Stoppers |-> "none"]
    /\ maxlogs = limit
    /\ init = IF done THEN [ret |-> "success", registered |-> TRUE, failed |-> "none"]
                      ELSE [ret |-> "none", registered |-> FALSE, failed |-> "none"]
    /\ diskok = TRUE
    /\ joins = 0
    /\ recalls = 0

\* the state after memcached_extensions_initialize
Setup(one) == Configured(one, {SmallBufferSz, BufferSz}, SUBSET {0, 1}, MaxLogs, TRUE)

Init == Setup(FALSE)

\* --------------------------------------------------------- do_add_log_entry
\* memcpy(buffers[currbuffer].data + offset, msg, size); offset += size
CopyIn(data) ==
    /\ buffers' = [buffers EXCEPT ![currbuffer] = @ \o data]
    /\ appended' = appended \o data
    /\ uaf' = (uaf \/ freed)

\* cb_cond_wait(&space_cond, &mutex): the mutex is released while t waits
WaitForSpace(t, waitpc) ==
    /\ pc' = [pc EXCEPT ![t] = waitpc]
    /\ mutex' = NoThread
    /\ blk' = [blk EXCEPT ![t] = "blocked"]
    /\ UNCHANGED <<buffers, appended, uaf>>

\* cb_cond_wait returns: a broadcast of space_cond (Swap) or a spurious wakeup
\* took t to "..._wake"; it takes the mutex again and tests the loop condition
Reacquire(t) ==
    /\ pc[t] \in {"sum_wake", "rec_wake"}
    /\ mutex = NoThread
    /\ mutex' = t
    /\ pc' = [pc EXCEPT ![t] = IF pc[t] = "sum_wake" THEN "sum" ELSE "rec"]
    /\ UNCHANGED <<confVars, hostVars, buffers, currbuffer, lastlog, run, pend, prodVars,
                   flushVars, uaf, appended, stopmark, atstop, blk>>

SpuriousWake(t) ==
    /\ pc[t] \in {"sum_wait", "rec_wait"}
    /\ pc' = [pc EXCEPT ![t] = IF pc[t] = "sum_wait" THEN "sum_wake" ELSE "rec_wake"]
    /\ UNCHANGED <<confVars, hostVars, buffers, currbuffer, lastlog, run, mutex, pend, prodVars,
                   flushVars, uaf, appended, stopmark, atstop, blk>>

\* ------------------------------------------------------------- logger_log
\* the producers that log, and the records they log
Loggers == IF single THEN {"p1"} ELSE Producers
Formatted == IF single THEN Records ELSE {RecA, RecB}

\* logger_log formats the record r and calls add_log_entry: cb_mutex_enter,
\* the comparison with the last message, and either ++lastlog.count and
\* cb_mutex_exit, or the formatting of flush_last_log's summary line
AddLogEntry(p, r) ==
    /\ pc[p] = "idle"
    /\ nlogs < maxlogs
    /\ mutex = NoThread
    /\ nlogs' = nlogs + 1
    /\ calls' = IF single THEN Append(calls, r) ELSE calls
    /\ blk' = [blk EXCEPT ![p] = "none"]
    /\ UNCHANGED <<confVars, hostVars, buffers, currbuffer, run, single, flushVars, uaf,
                   appended, stopmark, atstop>>
    /\ IF FitsLastLog(r) /\ SameAsLast(r)
       THEN /\ lastlog' = [lastlog EXCEPT !.count = @ + 1]
            /\ mutex' = NoThread
            /\ pc' = pc
            /\ msg' = msg
            /\ pend' = pend
       ELSE /\ mutex' = p
            /\ msg' = [msg EXCEPT ![p] = r]
            /\ IF ShouldFlushLast(lastlog.count)
               THEN /\ pend' = [pend EXCEPT ![p] = Summary(lastlog.count)]
                    /\ pc' = [pc EXCEPT ![p] = "sum"]
                    /\ lastlog' = lastlog
               ELSE /\ pend' = pend
                    /\ pc' = [pc EXCEPT ![p] = "rec"]
                    /\ lastlog' = IF FitsLastLog(r) THEN lastlog ELSE ClearedLastLog

\* flush_last_log: do_add_log_entry(buffer, len), and for a record that does
\* not fit lastlog.buffer the reset of lastlog that follows it
AddSummary(p) ==
    /\ pc[p] = "sum"
    /\ mutex = p
    /\ UNCHANGED <<confVars, hostVars, currbuffer, run, prodVars, flushVars, stopmark, atstop>>
    /\ IF NoRoom(Len(buffers[currbuffer]), Len(pend[p]))
       THEN /\ WaitForSpace(p, "sum_wait")
            /\ lastlog' = lastlog
            /\ pend' = pend
       ELSE /\ CopyIn(pend[p])
            /\ pend' = [pend EXCEPT ![p] = <<>>]
            /\ pc' = [pc EXCEPT ![p] = "rec"]
            /\ blk' = [blk EXCEPT ![p] = "none"]
            /\ mutex' = mutex
            /\ lastlog' = IF FitsLastLog(msg[p]) THEN lastlog ELSE ClearedLastLog

\* add_log_entry: do_add_log_entry(msg, size), the update of lastlog for a
\* record that fits it, and cb_mutex_exit
AddRecord(p) ==
    /\ pc[p] = "rec"
    /\ mutex = p
    /\ UNCHANGED <<confVars, hostVars, currbuffer, run, pend, calls, single, nlogs, flushVars,
                   stopmark, atstop>>
    /\ IF NoRoom(Len(buffers[currbuffer]), Len(msg[p].msg))
       THEN /\ WaitForSpace(p, "rec_wait")
            /\ lastlog' = lastlog
            /\ msg' = msg
       ELSE /\ CopyIn(msg[p].msg)
            /\ msg' = [msg EXCEPT ![p] = NoRec]
            /\ pc' = [pc EXCEPT ![p] = "idle"]
            /\ blk' = [blk EXCEPT ![p] = "none"]
            /\ mutex' = NoThread
            /\ lastlog' = IF FitsLastLog(msg[p])
                          THEN [buffer |-> Memcpy(lastlog.buffer, msg[p].msg),
                                count |-> 0, offset |-> msg[p].prefixlen]
                          ELSE lastlog

\* ---------------------------------------------------------------- storage
NewFile == [exists |-> TRUE, data |-> <<>>, synced |-> 0, isopen |-> TRUE]

\* iops.flush(file): every byte written to the file so far is flushed
Flushed(f) == [f EXCEPT !.synced = Len(f.data)]

\* close_logfile: if (fp) iops.close(fp); fclose flushes the stream
CloseLogfile(d, h) ==
    IF h = NullHandle THEN d
    ELSE [d EXCEPT ![h] = [Flushed(@) EXCEPT !.isopen = FALSE]]

\* open_logfile on the directory d: the probe from next_id on, then
\* iops.open(fname, "wb"), which succeeds (ok) or returns NULL
OpenLogfile(d, ok) ==
    LET id == Probe(next_id) IN
    /\ id \in FileIds
    /\ next_id' = id + 1
    /\ fp' = IF ok THEN id ELSE NullHandle
    /\ disk' = IF ok THEN [d EXCEPT ![id] = NewFile] ELSE d
    /\ opened' = IF ok THEN Append(opened, id) ELSE opened

\* iops.write(file, ptr, towrite) returning nw > 0, then ptr += nw, towrite -= nw
\* (a return of 0 changes nothing and is tried again)
WriteSome(nw, iopc, donepc) ==
    /\ fp # NullHandle
    /\ towrite > 0
    /\ nw \in 1 .. towrite
    /\ disk' = [disk EXCEPT ![fp] = [@ EXCEPT !.data = @ \o Chunk(buffers[this], nw)]]
    /\ towrite' = towrite - nw
    /\ pc' = [pc EXCEPT ![Flusher] = IF towrite - nw = 0 THEN donepc ELSE iopc]

\* -------------------------------------------------------- logger_thead_main
\* HANDLE fp = open_logfile(arg)
Start(ok) ==
    /\ pc[Flusher] = "open"
    /\ OpenLogfile(disk, ok)
    /\ pc' = [pc EXCEPT ![Flusher] = "enter"]
    /\ UNCHANGED <<confVars, hostVars, buffers, currbuffer, lastlog, run, mutex, pend, prodVars,
                   currsize, this, towrite, ret, elapsed, freed, uaf, appended,
                   stopmark, atstop, blk>>

\* cb_mutex_enter(&mutex); while (run)
Enter ==
    /\ pc[Flusher] = "enter"
    /\ mutex = NoThread
    /\ mutex' = Flusher
    /\ pc' = [pc EXCEPT ![Flusher] = IF run = 1 THEN "test" ELSE "drain"]
    /\ UNCHANGED <<confVars, hostVars, buffers, currbuffer, lastlog, run, pend, prodVars,
                   flushVars, uaf, appended, stopmark, atstop, blk>>

\* the inner loop's condition holds: this = currbuffer, next = tp.tv_sec + 1,
\* the flip of currbuffer, cb_cond_broadcast(&space_cond), cb_mutex_exit
Swap ==
    /\ pc[Flusher] = "test"
    /\ mutex = Flusher
    /\ elapsed \/ OverThreshold(Len(buffers[currbuffer]))
    /\ this' = currbuffer
    /\ elapsed' = FALSE
    /\ currbuffer' = Other(currbuffer)
    /\ blk' = [t \in DOMAIN blk |-> IF blk[t] = "blocked" THEN "freed" ELSE blk[t]]
    /\ pc' = [t \in Threads |->
                IF t = Flusher THEN "flush"
                ELSE IF pc[t] = "sum_wait" THEN "sum_wake"
                ELSE IF pc[t] = "rec_wait" THEN "rec_wake"
                ELSE pc[t]]
    /\ mutex' = MutexForIO
    /\ UNCHANGED <<confVars, hostVars, buffers, lastlog, run, pend, prodVars, fp, currsize,
                   towrite, ret, next_id, disk, opened, freed, uaf, appended, stopmark, atstop>>

\* the inner loop's condition fails: next = tp.tv_sec + sleeptime and
\* cb_cond_timedwait(&cond, &mutex, ...), which releases the mutex
TimedWait ==
    /\ pc[Flusher] = "test"
    /\ mutex = Flusher
    /\ ~(elapsed \/ OverThreshold(Len(buffers[currbuffer])))
    /\ mutex' = NoThread
    /\ pc' = [pc EXCEPT ![Flusher] = "wait"]
    /\ UNCHANGED <<confVars, hostVars, buffers, currbuffer, lastlog, run, pend, prodVars,
                   flushVars, uaf, appended, stopmark, atstop, blk>>

\* cb_cond_timedwait returns (a signal of cond, or the timeout) with the mutex
\* held; while (run); cb_get_timeofday(&tp) makes tp.tv_sec >= next true or false
Wake ==
    /\ pc[Flusher] = "wait"
    /\ mutex = NoThread
    /\ mutex' = Flusher
    /\ elapsed' \in (IF run = 1 THEN TimedOut ELSE {elapsed})
    /\ pc' = [pc EXCEPT ![Flusher] = IF run = 1 THEN "test" ELSE "drain"]
    /\ UNCHANGED <<confVars, hostVars, buffers, currbuffer, lastlog, run, pend, prodVars, fp,
                   currsize, this, towrite, ret, next_id, disk, opened, freed, uaf,
                   appended, stopmark, atstop, blk>>

\* flush_pending_io(fp, buffers + this): if (lb->offset > 0) towrite = ret = lb->offset;
\* with nothing to write it returns 0 and currsize stays
FlushBegin ==
    /\ pc[Flusher] = "flush"
    /\ ret' = Len(buffers[this])
    /\ towrite' = Len(buffers[this])
    /\ pc' = [pc EXCEPT ![Flusher] =
                IF Len(buffers[this]) > 0 THEN "io"
                ELSE IF NeedRotate(currsize) THEN "reopen" ELSE "reenter"]
    /\ UNCHANGED <<confVars, hostVars, buffers, currbuffer, lastlog, run, mutex, pend, prodVars,
                   fp, currsize, this, elapsed, next_id, disk, opened, freed, uaf,
                   appended, stopmark, atstop, blk>>

\* flush_pending_io: one iops.write of the loop
Write(nw) ==
    /\ pc[Flusher] = "io"
    /\ WriteSome(nw, "io", "sync")
    /\ UNCHANGED <<confVars, hostVars, buffers, currbuffer, lastlog, run, mutex, pend, prodVars,
                   fp, currsize, this, ret, elapsed, next_id, opened, freed, uaf,
                   appended, stopmark, atstop, blk>>

\* flush_pending_io: lb->offset = 0; iops.flush(file); return ret; then
\* currsize += ret and the test currsize > cyclesz
Sync ==
    /\ pc[Flusher] = "sync"
    /\ buffers' = [buffers EXCEPT ![this] = Reset(@)]
    /\ disk' = [disk EXCEPT ![fp] = Flushed(@)]
    /\ currsize' = currsize + ret
    /\ ret' = 0
    /\ pc' = [pc EXCEPT ![Flusher] =
                IF NeedRotate(currsize + ret) THEN "reopen" ELSE "reenter"]
    /\ UNCHANGED <<confVars, hostVars, currbuffer, lastlog, run, mutex, pend, prodVars, fp,
                   this, towrite, elapsed, next_id, opened, freed, uaf, appended,
                   stopmark, atstop, blk>>

\* fp = reopen_logfile(fp, arg); currsize = 0
Reopen(ok) ==
    /\ pc[Flusher] = "reopen"
    /\ OpenLogfile(CloseLogfile(disk, fp), ok)
    /\ currsize' = 0
    /\ pc' = [pc EXCEPT ![Flusher] = "reenter"]
    /\ UNCHANGED <<confVars, hostVars, buffers, currbuffer, lastlog, run, mutex, pend, prodVars,
                   this, towrite, ret, elapsed, freed, uaf, appended, stopmark, atstop, blk>>

\* cb_mutex_enter(&mutex) at the end of the inner loop's body
Reenter ==
    /\ pc[Flusher] = "reenter"
    /\ mutex = NoThread
    /\ mutex' = Flusher
    /\ pc' = [pc EXCEPT ![Flusher] = "test"]
    /\ UNCHANGED <<confVars, hostVars, buffers, currbuffer, lastlog, run, pend, prodVars,
                   flushVars, uaf, appended, stopmark, atstop, blk>>

\* after the loop, with the mutex held: if (fp) while (buffers[currbuffer].offset)
\* { this = currbuffer; flip; flush_pending_io(fp, buffers + this) }
DrainSwap ==
    /\ pc[Flusher] = "drain"
    /\ mutex = Flusher
    /\ fp # NullHandle
    /\ DrainCond(Len(buffers[currbuffer]))
    /\ this' = currbuffer
    /\ currbuffer' = Other(currbuffer)
    /\ ret' = Len(buffers[currbuffer])
    /\ towrite' = Len(buffers[currbuffer])
    /\ pc' = [pc EXCEPT ![Flusher] = IF Len(buffers[currbuffer]) > 0 THEN "dio" ELSE "drain"]
    /\ blk' = [t \in DOMAIN blk |-> IF blk[t] = "blocked" THEN "freed" ELSE blk[t]]
    /\ UNCHANGED <<confVars, hostVars, buffers, lastlog, run, mutex, pend, prodVars, fp,
                   currsize, elapsed, next_id, disk, opened, freed, uaf, appended,
                   stopmark, atstop>>

DrainWrite(nw) ==
    /\ pc[Flusher] = "dio"
    /\ WriteSome(nw, "dio", "dsync")
    /\ UNCHANGED <<confVars, hostVars, buffers, currbuffer, lastlog, run, mutex, pend, prodVars,
                   fp, currsize, this, ret, elapsed, next_id, opened, freed, uaf,
                   appended, stopmark, atstop, blk>>

\* flush_pending_io in the drain: lb->offset = 0; iops.flush(file); the
\* returned count is dropped
DrainSync ==
    /\ pc[Flusher] = "dsync"
    /\ buffers' = [buffers EXCEPT ![this] = Reset(@)]
    /\ disk' = [disk EXCEPT ![fp] = Flushed(@)]
    /\ ret' = 0
    /\ pc' = [pc EXCEPT ![Flusher] = "drain"]
    /\ UNCHANGED <<confVars, hostVars, currbuffer, lastlog, run, mutex, pend, prodVars, fp,
                   currsize, this, towrite, elapsed, next_id, opened, freed,
                   uaf, appended, stopmark, atstop, blk>>

\* the drain is over, or fp is NULL: close_logfile(fp) for a handle that is not NULL
DrainClose ==
    /\ pc[Flusher] = "drain"
    /\ mutex = Flusher
    /\ ~(fp # NullHandle /\ DrainCond(Len(buffers[currbuffer])))
    /\ disk' = CloseLogfile(disk, fp)
    /\ pc' = [pc EXCEPT ![Flusher] = "exit"]
    /\ UNCHANGED <<confVars, hostVars, buffers, currbuffer, lastlog, run, mutex, pend, prodVars,
                   fp, currsize, this, towrite, ret, elapsed, next_id, opened, freed,
                   uaf, appended, stopmark, atstop, blk>>

\* cb_mutex_exit(&mutex); free(arg); free(buffers[0].data); free(buffers[1].data)
Exit ==
    /\ pc[Flusher] = "exit"
    /\ mutex = Flusher
    /\ mutex' = NoThread
    /\ freed' = TRUE
    /\ pc' = [pc EXCEPT ![Flusher] = "exited"]
    /\ UNCHANGED <<confVars, hostVars, buffers, currbuffer, lastlog, run, pend, prodVars, fp,
                   currsize, this, towrite, ret, elapsed, next_id, disk, opened, uaf,
                   appended, stopmark, atstop, blk>>

\* ---------------------------------------------------------- logger_shutdown
\* thread s calls logger_shutdown: cb_mutex_enter(&mutex); flush_last_log() up
\* to its do_add_log_entry
ShutdownBy(s) ==
    /\ pc[s] = "idle"
    /\ mutex = NoThread
    /\ mutex' = s
    /\ blk' = [blk EXCEPT ![s] = "none"]
    /\ IF ShouldFlushLast(lastlog.count)
       THEN /\ pend' = [pend EXCEPT ![s] = Summary(lastlog.count)]
            /\ pc' = [pc EXCEPT ![s] = "sum"]
       ELSE /\ pend' = pend
            /\ pc' = [pc EXCEPT ![s] = "stop"]
    /\ atstop' = IF atstop.logs = -1
                 THEN [logs |-> nlogs, idle |-> \A p \in Producers : pc[p] = "idle"]
                 ELSE atstop
    /\ UNCHANGED <<confVars, hostVars, buffers, currbuffer, lastlog, run, prodVars, flushVars,
                   uaf, appended, stopmark>>

\* flush_last_log: do_add_log_entry(buffer, len)
StopSummaryBy(s) ==
    /\ pc[s] = "sum"
    /\ mutex = s
    /\ UNCHANGED <<confVars, hostVars, currbuffer, lastlog, run, prodVars, flushVars, stopmark, atstop>>
    /\ IF NoRoom(Len(buffers[currbuffer]), Len(pend[s]))
       THEN /\ WaitForSpace(s, "sum_wait")
            /\ pend' = pend
       ELSE /\ CopyIn(pend[s])
            /\ pend' = [pend EXCEPT ![s] = <<>>]
            /\ pc' = [pc EXCEPT ![s] = "stop"]
            /\ blk' = [blk EXCEPT ![s] = "none"]
            /\ mutex' = mutex

\* running = run; run = 0; cb_cond_signal(&cond); cb_mutex_exit(&mutex)
StopBy(s) ==
    /\ pc[s] = "stop"
    /\ mutex = s
    /\ run' = 0
    /\ mutex' = NoThread
    /\ stopmark' = IF stopmark = -1 THEN Len(appended) ELSE stopmark
    /\ pc' = [pc EXCEPT ![s] = IF run = 1 THEN "join" ELSE "returned"]
    /\ UNCHANGED <<confVars, hostVars, buffers, currbuffer, lastlog, pend, prodVars, flushVars,
                   uaf, appended, atstop, blk>>

\* cb_join_thread(tid) by thread t, the first join of tid: it returns once the
\* flusher thread has ended
JoinBy(t) ==
    /\ pc[t] = "join"
    /\ pc[Flusher] = "exited"
    /\ joins = 0
    /\ joins' = joins + 1
    /\ pc' = [pc EXCEPT ![t] = "returned"]
    /\ UNCHANGED <<confVars, maxlogs, init, diskok, recalls, buffers, currbuffer, lastlog,
                   run, mutex, pend, prodVars, flushVars, uaf, appended, stopmark,
                   atstop, blk>>

\* the logger_shutdown call of the host
Shutdown == ShutdownBy(Stopper)

StopSummary == StopSummaryBy(Stopper)

Stop == StopBy(Stopper)

\* if (running) cb_join_thread(tid)
Join == JoinBy(Stopper)

\* ---------------------------------------------------------- specification
Next ==
    \/ \E p \in Loggers : \E r \in Formatted : AddLogEntry(p, r)
    \/ \E p \in Producers : AddSummary(p)
    \/ \E p \in Producers : AddRecord(p)
    \/ \E t \in Producers \cup {Stopper} : Reacquire(t)
    \/ \E t \in Producers \cup {Stopper} : SpuriousWake(t)
    \/ Start(TRUE)
    \/ Enter
    \/ Swap
    \/ TimedWait
    \/ Wake
    \/ FlushBegin
    \/ \E nw \in 1 .. BufferSz : Write(nw)
    \/ Sync
    \/ Reopen(TRUE)
    \/ Reenter
    \/ DrainSwap
    \/ \E nw \in 1 .. BufferSz : DrainWrite(nw)
    \/ DrainSync
    \/ DrainClose
    \/ Exit
    \/ Shutdown
    \/ StopSummary
    \/ Stop
    \/ Join

Spec == Init /\ [][Next]_vars

\* one producer does all the logging, and its calls are recorded
InitSingle == Setup(TRUE)
SpecSingle == InitSingle /\ [][Next]_vars

\* ------------------------------------------- memcached_extensions_initialize
\* the whole of memcached_extensions_initialize: the two malloc (allocOk),
\* cb_create_thread (threadOk), atexit(exit_handler), register_extension
\* (regOk) and the return; a failed malloc or cb_create_thread frees the buffers
Initialize(allocOk, threadOk, regOk) ==
    /\ init.ret = "none"
    /\ pc[Flusher] = "nothread"
    /\ init' = IF ~allocOk
               THEN [ret |-> "fatal", registered |-> FALSE, failed |-> "alloc"]
               ELSE IF ~threadOk
               THEN [ret |-> "fatal", registered |-> FALSE, failed |-> "thread"]
               ELSE IF ~regOk
               THEN [ret |-> "fatal", registered |-> FALSE, failed |-> "register"]
               ELSE [ret |-> "success", registered |-> TRUE, failed |-> "none"]
    /\ freed' = ~(allocOk /\ threadOk)
    /\ pc' = IF allocOk /\ threadOk THEN [pc EXCEPT ![Flusher] = "open"] ELSE pc
    /\ UNCHANGED <<confVars, maxlogs, diskok, joins, recalls, buffers, currbuffer,
                   lastlog, run, mutex, pend, prodVars, fp, currsize, this, towrite,
                   ret, elapsed, next_id, disk, opened, uaf, appended, stopmark,
                   atstop, blk>>

\* whether atexit(exit_handler) was reached
AtExitRegistered == init.failed \in {"none", "register"} /\ init.ret # "none"

\* ------------------------------------------------------- storage that fails
\* the device stops taking bytes (it is full, or gone): from now on iops.write
\* returns 0 or a negative count
DiskFails ==
    /\ diskok
    /\ pc[Flusher] \notin {"nothread", "exited", "crashed"}
    /\ diskok' = FALSE
    /\ UNCHANGED <<confVars, maxlogs, init, joins, recalls, buffers, currbuffer,
                   lastlog, run, mutex, pc, pend, prodVars, flushVars, uaf, appended,
                   stopmark, atstop, blk>>

\* flush_pending_io: iops.write returns nw <= 0, so ptr and towrite stay and the
\* loop calls iops.write again
WriteNone ==
    /\ pc[Flusher] \in {"io", "dio"}
    /\ fp # NullHandle
    /\ towrite > 0
    /\ UNCHANGED vars

\* flush_pending_io with file = NULL: iops.write(NULL, ptr, towrite) is
\* fwrite on a null stream, which is undefined: the process dies (crash), or the
\* call returns no count and the loop calls it again
WriteNull(crash) ==
    /\ pc[Flusher] = "io"
    /\ fp = NullHandle
    /\ towrite > 0
    /\ pc' = IF crash THEN [t \in Threads |-> "crashed"] ELSE pc
    /\ UNCHANGED <<confVars, hostVars, buffers, currbuffer, lastlog, run, mutex, pend,
                   prodVars, flushVars, uaf, appended, stopmark, atstop, blk>>

\* the steps of the flusher thread that need no storage, or storage that works
FlusherSteps ==
    \/ Enter
    \/ Swap
    \/ TimedWait
    \/ Wake
    \/ FlushBegin
    \/ Sync
    \/ Reenter
    \/ DrainSwap
    \/ DrainSync
    \/ DrainClose
    \/ Exit

\* the steps of the producers, once the descriptor is registered
ProducerSteps ==
    \/ \E p \in Loggers : \E r \in Formatted : init.registered /\ AddLogEntry(p, r)
    \/ \E p \in Producers : AddSummary(p)
    \/ \E p \in Producers : AddRecord(p)
    \/ \E t \in Producers \cup Stoppers : Reacquire(t)
    \/ \E t \in Producers \cup Stoppers : SpuriousWake(t)

\* startup and storage that may fail: an open that returns NULL, writes that
\* return no count, a device that fails for good
NextStartup ==
    \/ \E a \in BOOLEAN : \E t \in BOOLEAN : \E r \in BOOLEAN : Initialize(a, t, r)
    \/ ProducerSteps
    \/ FlusherSteps
    \/ \E ok \in BOOLEAN : Start(ok)
    \/ \E ok \in BOOLEAN : Reopen(ok)
    \/ \E nw \in 1 .. BufferSz : diskok /\ Write(nw)
    \/ \E nw \in 1 .. BufferSz : diskok /\ DrainWrite(nw)
    \/ WriteNone
    \/ \E crash \in BOOLEAN : WriteNull(crash)
    \/ DiskFails
    \/ init.registered /\ Shutdown
    \/ StopSummary
    \/ Stop
    \/ Join

\* the state before memcached_extensions_initialize is called
InitStartup == Configured(FALSE, {BufferSz}, {{}}, MaxLogs, FALSE)

SpecStartup == InitStartup /\ [][NextStartup]_vars

\* the same, with a flusher thread that is scheduled: a step it can take is
\* taken, and a write to a device that takes bytes writes some
FlusherFair ==
    /\ WF_vars(FlusherSteps)
    /\ WF_vars(\E nw \in 1 .. BufferSz : diskok /\ Write(nw))
    /\ WF_vars(\E nw \in 1 .. BufferSz : diskok /\ DrainWrite(nw))
    /\ WF_vars(\E ok \in BOOLEAN : Start(ok))
    /\ WF_vars(\E ok \in BOOLEAN : Reopen(ok))

SpecStartupLive == SpecStartup /\ FlusherFair

\* ------------------------------------------------------------- lifecycle
\* the host calls logger_shutdown once more from a thread whose call returned
Again(s) ==
    /\ pc[s] = "returned"
    /\ recalls < MaxRecalls
    /\ recalls' = recalls + 1
    /\ pc' = [pc EXCEPT ![s] = "idle"]
    /\ UNCHANGED <<confVars, maxlogs, init, diskok, joins, buffers, currbuffer, lastlog,
                   run, mutex, pend, prodVars, flushVars, uaf, appended, stopmark,
                   atstop, blk>>

\* exit_handler, run by exit(): cb_mutex_enter(&mutex); run = 0;
\* cb_cond_signal(&cond); cb_mutex_exit(&mutex), then cb_join_thread(tid)
ExitHandler ==
    /\ AtExitRegistered
    /\ pc[Exiter] = "idle"
    /\ mutex = NoThread
    /\ run' = 0
    /\ pc' = [pc EXCEPT ![Exiter] = "join"]
    /\ UNCHANGED <<confVars, hostVars, buffers, currbuffer, lastlog, mutex, pend,
                   prodVars, flushVars, uaf, appended, stopmark, atstop, blk>>

\* cb_join_thread(tid) for a thread that was joined already: pthread_join of a
\* joined thread is undefined: the call returns with an error, or the process
\* dies (crash)
JoinAgain(t, crash) ==
    /\ pc[t] = "join"
    /\ pc[Flusher] = "exited"
    /\ joins >= 1
    /\ joins' = joins + 1
    /\ pc' = IF crash THEN [u \in Threads |-> "crashed"] ELSE [pc EXCEPT ![t] = "returned"]
    /\ UNCHANGED <<confVars, maxlogs, init, diskok, recalls, buffers, currbuffer, lastlog,
                   run, mutex, pend, prodVars, flushVars, uaf, appended, stopmark,
                   atstop, blk>>

\* storage that works, any number of logger_shutdown calls from two threads,
\* and the exit handler
NextLifecycle ==
    \/ ProducerSteps
    \/ FlusherSteps
    \/ Start(TRUE)
    \/ Reopen(TRUE)
    \/ \E nw \in 1 .. BufferSz : Write(nw)
    \/ \E nw \in 1 .. BufferSz : DrainWrite(nw)
    \/ \E s \in Stoppers : ShutdownBy(s)
    \/ \E s \in Stoppers : StopSummaryBy(s)
    \/ \E s \in Stoppers : StopBy(s)
    \/ Again(Stopper)
    \/ ExitHandler
    \/ \E t \in Stoppers \cup {Exiter} : JoinBy(t)
    \/ \E t \in Stoppers \cup {Exiter} : \E crash \in BOOLEAN : JoinAgain(t, crash)

InitLifecycle == Configured(FALSE, {BufferSz}, {{}}, MaxLogs, TRUE)

SpecLifecycle == InitLifecycle /\ [][NextLifecycle]_vars

\* two producers, storage that works, enough calls for a run of three identical
\* records that is ended while another producer logs
InitDedup == Configured(FALSE, {BufferSz}, {{}}, DedupLogs, TRUE)

SpecDedup == InitDedup /\ [][Next]_vars

\* -------------------------------------------------------------- scheduling
\* every thread is scheduled and gets the mutex when it is free again and
\* again, storage takes some bytes at every write, and cb_cond_timedwait
\* times out: again and again the flusher wakes with tp.tv_sec >= next.
\* A spurious return of cb_cond_wait is possible and never owed.
LiveFair ==
    /\ SF_vars(Enter)
    /\ SF_vars(Reenter)
    /\ SF_vars(Wake)
    /\ SF_vars(Wake /\ elapsed')
    /\ WF_vars(Start(TRUE) \/ Swap \/ TimedWait \/ FlushBegin \/ Sync \/ Reopen(TRUE))
    /\ WF_vars(DrainSwap \/ DrainSync \/ DrainClose \/ Exit)
    /\ WF_vars(\E nw \in 1 .. BufferSz : Write(nw))
    /\ WF_vars(\E nw \in 1 .. BufferSz : DrainWrite(nw))
    /\ \A t \in Producers \cup {Stopper} : SF_vars(Reacquire(t))
    /\ \A p \in Producers : WF_vars(AddSummary(p)) /\ WF_vars(AddRecord(p))
    /\ WF_vars(StopSummary \/ Stop \/ Join)

SpecLive == Spec /\ LiveFair

\* the logger while it runs: producers log and the flusher loops; nobody
\* calls logger_shutdown
NextRunning ==
    \/ ProducerSteps
    \/ Start(TRUE)
    \/ Enter
    \/ Swap
    \/ TimedWait
    \/ Wake
    \/ FlushBegin
    \/ \E nw \in 1 .. BufferSz : Write(nw)
    \/ Sync
    \/ Reopen(TRUE)
    \/ Reenter

RunningFair ==
    /\ SF_vars(Enter)
    /\ SF_vars(Reenter)
    /\ SF_vars(Wake /\ elapsed')
    /\ WF_vars(Start(TRUE) \/ Swap \/ TimedWait \/ FlushBegin \/ Sync \/ Reopen(TRUE))
    /\ WF_vars(\E nw \in 1 .. BufferSz : Write(nw))
    /\ \A p \in Producers : SF_vars(Reacquire(p))
    /\ \A p \in Producers : WF_vars(AddSummary(p)) /\ WF_vars(AddRecord(p))

InitRunning == Configured(FALSE, {BufferSz}, {{}}, MaxLogs, TRUE)

SpecRunning == InitRunning /\ [][NextRunning]_vars /\ RunningFair

\* ---------------------------------------------------------- observations
RECURSIVE FileBytes(_)
\* what the files the logger opened hold, in the order they were opened
FileBytes(ids) ==
    IF ids = <<>> THEN <<>> ELSE disk[Head(ids)].data \o FileBytes(Tail(ids))

RECURSIVE FlushedBytes(_)
\* the part of those bytes that iops.flush has been called for
FlushedBytes(ids) ==
    IF ids = <<>> THEN <<>>
    ELSE SubSeq(disk[Head(ids)].data, 1, disk[Head(ids)].synced)
         \o FlushedBytes(Tail(ids))

Persisted == FileBytes(opened)

IsPrefix(s, t) == Len(s) <= Len(t) /\ SubSeq(t, 1, Len(s)) = s

\* the bytes of the buffer being drained that flush_pending_io has not
\* handed to iops.write yet
InFlight ==
    IF pc[Flusher] = "flush" THEN buffers[this]
    ELSE IF pc[Flusher] \in {"io", "dio"}
         THEN SubSeq(buffers[this], ret - towrite + 1, ret)
         ELSE <<>>

Body(r) == SubSeq(r.msg, r.prefixlen + 1, Len(r.msg))

\* the calls so far are n records with one body, then at most one record
\* with another body
IsRun(n) ==
    /\ n \in 1 .. Len(calls)
    /\ Len(calls) \in {n, n + 1}
    /\ \A i \in 1 .. n : Body(calls[i]) = Body(calls[1])
    /\ Len(calls) = n + 1 => Body(calls[n + 1]) # Body(calls[1])

\* logger_shutdown was called after every logging call had returned, and has
\* returned
QuietShutdown ==
    /\ pc[Stopper] = "returned"
    /\ atstop.idle
    /\ atstop.logs = Len(calls)
    /\ ~uaf

\* ---------------------------------------------------------- C1
\* C1: n consecutive records that are identical after the timestamp prefix,
\* followed by a differing record or by shutdown, leave in the log the first
\* copy and, when n > 1, one line "message repeated n-1 times" and nothing
\* else; n = 1 leaves the record alone.
C1_DedupRun ==
    \A n \in 1 .. MaxLogs :
        (single /\ QuietShutdown /\ IsRun(n)) =>
            Persisted = calls[1].msg
                        \o (IF n > 1 THEN Summary(n - 1) ELSE <<>>)
                        \o (IF Len(calls) = n + 1 THEN calls[n + 1].msg ELSE <<>>)

\* ---------------------------------------------------------- C2
\* C2: once logger_shutdown has returned, every byte that was appended before
\* it cleared run, its own repeat summary included, has been written to the
\* log files and flushed.
C2_ShutdownDrains ==
    pc[Stopper] = "returned" =>
        /\ stopmark <= Len(FlushedBytes(opened))
        /\ SubSeq(FlushedBytes(opened), 1, stopmark) = SubSeq(appended, 1, stopmark)

C2_Witness ==
    /\ pc[Stopper] = "returned"
    /\ lastlog.count = 2
    /\ stopmark = Len(appended)
    /\ stopmark > Len(Summary(2))
    /\ SubSeq(appended, stopmark - Len(Summary(2)) + 1, stopmark) = Summary(2)
    /\ Len(opened) >= 2

\* ---------------------------------------------------------- C3
\* the bytes a step copied into a buffer
Copied == SubSeq(appended', Len(appended) + 1, Len(appended'))

\* C3: the fill offset of each buffer never exceeds buffersz, and an append
\* copies one whole record or summary line behind the bytes already in the
\* active buffer.
C3_Capacity ==
    /\ [](\A b \in {0, 1} : Len(buffers[b]) <= buffersz)
    /\ [][appended' # appended =>
            /\ Copied \in {msg[p].msg : p \in Producers} \cup {pend[t] : t \in DOMAIN pend}
            /\ buffers'[currbuffer] = buffers[currbuffer] \o Copied
            /\ Len(buffers'[currbuffer]) <= buffersz]_vars

C3_Witness ==
    /\ Len(buffers[currbuffer]) + 1 = buffersz
    /\ \E p \in Producers : pc[p] = "rec_wait" /\ blk[p] = "blocked"

\* ---------------------------------------------------------- C4
\* C4: the bytes in the log files, in file order, are a prefix of the bytes
\* appended to the buffers, and the rest of the appended bytes are, in order,
\* the unwritten part of the buffer being drained and the active buffer.
C4_PersistedPrefix ==
    /\ IsPrefix(Persisted, appended)
    /\ appended = Persisted \o InFlight \o buffers[currbuffer]

C4_Witness ==
    /\ pc[Flusher] = "io"
    /\ 0 < towrite /\ towrite < ret
    /\ buffers[currbuffer] # <<>>
    /\ Len(opened) >= 2
    /\ \A i \in 1 .. Len(opened) : disk[opened[i]].data # <<>>

\* ---------------------------------------------------------- C5
\* C5: from the comparison of a record with lastlog to the end of that
\* record's append, a wait for buffer space included, no other producer
\* changes lastlog or copies bytes into a buffer.
C5_AtomicDedup ==
    [][\A p \in Producers :
          (/\ pc[p] \in {"sum", "sum_wait", "sum_wake", "rec", "rec_wait", "rec_wake"}
           /\ pc'[p] = pc[p]
           /\ pc'[Stopper] = pc[Stopper])
          => (lastlog' = lastlog /\ appended' = appended)]_vars

\* ---------------------------------------------------------- C6
\* C6: a producer whose record does not satisfy offset + size < buffersz
\* copies nothing and waits; a producer that copies does so only when the
\* active buffer satisfies offset + size < buffersz, after a swap by the
\* flusher if it had waited, and then copies the whole record: nothing is
\* dropped, truncated or returned early.
C6_Backpressure ==
    [][\A t \in Producers :
          LET data == IF pc[t] = "sum" THEN pend[t] ELSE msg[t].msg
          IN  (mutex = t /\ pc[t] \in {"sum", "rec"} /\ pc'[t] # pc[t]) =>
                 IF Len(buffers[currbuffer]) + Len(data) < buffersz
                 THEN /\ blk[t] # "blocked"
                      /\ appended' = appended \o data
                      /\ buffers'[currbuffer] = buffers[currbuffer] \o data
                      /\ pc'[t] = (IF pc[t] = "sum" THEN "rec" ELSE "idle")
                 ELSE /\ pc'[t] = (IF pc[t] = "sum" THEN "sum_wait" ELSE "rec_wait")
                      /\ appended' = appended
                      /\ buffers' = buffers]_vars

C6_Witness ==
    \E t \in Producers :
        /\ pc[t] = "rec"
        /\ mutex = t
        /\ blk[t] = "freed"
        /\ buffers[Other(currbuffer)] # <<>>
        /\ Len(buffers[currbuffer]) + Len(msg[t].msg) < buffersz

\* ---------------------------------------------------------- C7
\* C7: only the flusher, holding the mutex, changes currbuffer; while the
\* flusher drains a buffer outside the mutex that buffer is not the active
\* one, and a step that copies a record leaves the buffer being drained as
\* it was.
C7_DisjointBuffers ==
    /\ [](pc[Flusher] \in {"flush", "io", "sync"} => this # currbuffer)
    /\ [](pc[Flusher] \in {"dio", "dsync"} => this # currbuffer /\ mutex = Flusher)
    /\ [][currbuffer' # currbuffer =>
            /\ mutex = Flusher
            /\ pc[Flusher] \in {"test", "drain"}
            /\ pc'[Flusher] # pc[Flusher]]_vars
    /\ [][(appended' # appended /\ pc[Flusher] \in {"flush", "io", "sync", "dio", "dsync"})
            => buffers'[this] = buffers[this]]_vars

C7_Witness ==
    /\ pc[Flusher] = "io"
    /\ towrite < ret
    /\ \E p \in Producers : pc[p] = "rec" /\ mutex = p
    /\ buffers[currbuffer] # <<>>

\* ---------------------------------------------------------- C8
\* a step of the flusher thread
FlusherStep == pc'[Flusher] # pc[Flusher] \/ towrite' # towrite

\* C8 as stated: every open, write, flush and close of a log file is done by
\* the flusher thread at a time when it does not hold the mutex, the drain at
\* shutdown included.
C8_IoOutsideMutex ==
    [][disk' # disk => (FlusherStep /\ mutex # Flusher)]_vars

\* C8, amended: every open, write, flush and close of a log file is done by
\* the flusher thread; at startup, in the flush loop and at rotation it does
\* not hold the mutex, and in the drain at shutdown it holds the mutex.
C8_IoOutsideMutexButDrain ==
    [][disk' # disk =>
          /\ FlusherStep
          /\ \/ pc[Flusher] \in {"open", "io", "sync", "reopen"} /\ mutex # Flusher
             \/ pc[Flusher] \in {"drain", "dio", "dsync"} /\ mutex = Flusher]_vars

C8_Witness ==
    /\ pc[Flusher] = "dsync"
    /\ mutex = Flusher
    /\ Len(opened) >= 2
    /\ disk[fp].synced < Len(disk[fp].data)

\* ---------------------------------------------------------- C9
\* C9: a flush cycle starts only on a file that holds at most cyclesz bytes,
\* currsize is the length of the current file between cycles, and every file
\* the logger left behind holds more than cyclesz bytes, is closed, and has a
\* smaller sequence number than its successor.
C9_Rotation ==
    /\ pc[Flusher] \in {"enter", "test", "wait", "flush", "reenter"} =>
           /\ currsize = Len(disk[fp].data)
           /\ currsize <= cyclesz
    /\ pc[Flusher] \in {"io", "sync", "dio", "dsync"} =>
           Len(disk[fp].data) - (ret - towrite) <= cyclesz
    /\ pc[Flusher] = "reopen" => NeedRotate(Len(disk[fp].data))
    /\ \A i \in 1 .. Len(opened) - 1 :
           /\ Len(disk[opened[i]].data) > cyclesz
           /\ ~disk[opened[i]].isopen
           /\ disk[opened[i]].synced = Len(disk[opened[i]].data)
           /\ opened[i] < opened[i + 1]

C9_Witness ==
    /\ pc[Flusher] = "io"
    /\ Len(opened) >= 2
    /\ fp = opened[Len(opened)]
    /\ disk[fp].data # <<>>
    /\ 0 < towrite /\ towrite < ret
    /\ Len(disk[opened[1]].data) > cyclesz

\* ---------------------------------------------------------- C10
\* C10: the sequence numbers of the files the logger opens are strictly
\* increasing, a file is opened for writing only under a name that did not
\* exist when it was probed, and the files that were on disk at startup keep
\* their content.
C10_FreshNames ==
    /\ [](\A i \in 1 .. Len(opened) : \A j \in 1 .. Len(opened) :
             i < j => opened[i] < opened[j])
    /\ [](\A id \in atstart :
             disk[id] = OldFile /\ (\A i \in 1 .. Len(opened) : opened[i] # id))
    /\ [][opened' # opened =>
            /\ Len(opened') = Len(opened) + 1
            /\ ~disk[opened'[Len(opened')]].exists
            /\ next_id' = opened'[Len(opened')] + 1]_vars

C10_Witness ==
    /\ atstart = {1}
    /\ Len(opened) >= 2
    /\ opened[1] = 0
    /\ opened[2] = 2

\* ---------------------------------------------------------- C11
\* a startup step has failed: a malloc, cb_create_thread, or the open of the
\* first log file
StartupFailed ==
    \/ init.failed \in {"alloc", "thread"}
    \/ pc[Flusher] \notin {"nothread", "open"} /\ opened = <<>>

\* C11: when a malloc, the start of the flusher thread or the open of the first
\* log file has failed, memcached_extensions_initialize has returned
\* EXTENSION_FATAL, no flusher thread runs and the descriptor is not registered.
C11_StartupFailureIsFatal ==
    StartupFailed =>
        /\ init.ret = "fatal"
        /\ ~init.registered
        /\ pc[Flusher] = "nothread"

\* ---------------------------------------------------------- C13
\* C13: after an open has returned NULL the flusher never calls iops.write,
\* iops.flush or iops.close with the null handle, and no byte of a buffer is
\* dropped: every appended byte is in a file, in the buffer being drained or in
\* the active buffer.
C13_OpenFailureContained ==
    /\ pc[Flusher] \in {"io", "sync", "dio", "dsync"} => fp # NullHandle
    /\ pc[Flusher] # "crashed"
    /\ ~uaf => appended = Persisted \o InFlight \o buffers[currbuffer]

\* ---------------------------------------------------------- C12
\* C12: every call of flush_pending_io ends, whatever iops.write returns: once
\* the flusher is in the write loop with a handle that is not NULL, it leaves
\* the loop.
C12_DrainTerminates ==
    (pc[Flusher] \in {"io", "dio"} /\ fp # NullHandle) ~> (pc[Flusher] \notin {"io", "dio"})

\* ---------------------------------------------------------- C14
\* C14: once a call of logger_shutdown has returned, the flusher thread has
\* ended, and no step changes a log file afterwards, whatever the interleaving
\* of the logger_shutdown callers, the exit handler and the flusher.
C14_StoppedOnReturn ==
    /\ [](\A s \in Stoppers : pc[s] = "returned" => pc[Flusher] = "exited")
    /\ [][(\E s \in Stoppers : pc[s] = "returned") => disk' = disk]_vars

\* ---------------------------------------------------------- C15
\* C15: a call of logger_shutdown made after an earlier call has returned, with
\* no logger_log call since the earlier one began and no other thread calling
\* logger_shutdown, changes no state of the logger: it copies nothing into a
\* buffer, joins no thread and changes no log file.
C15_ShutdownIdempotent ==
    [][(/\ recalls >= 1
        /\ atstop.idle /\ atstop.logs = nlogs
        /\ pc'[Stopper] # pc[Stopper] /\ pc[Stopper] # "returned"
        /\ pc[Stopper2] = "idle" /\ pc'[Stopper2] = "idle") =>
          /\ appended' = appended
          /\ buffers' = buffers
          /\ lastlog' = lastlog
          /\ joins' = joins
          /\ disk' = disk]_vars

\* ---------------------------------------------------------- C20
\* C20: once the flusher thread has freed the buffers no call copies bytes
\* into a buffer, and cb_join_thread is called for the flusher thread at most
\* once.
C20_NoUseAfterStop ==
    /\ ~uaf
    /\ joins <= 1

\* ---------------------------------------------------------- C16
RECURSIVE SplitLines(_, _)
\* the lines of a stream of bytes, cur being the bytes of the line in progress
SplitLines(stream, cur) ==
    IF stream = <<>> THEN (IF cur = <<>> THEN <<>> ELSE <<cur>>)
    ELSE IF Head(stream) = "nl"
         THEN <<Append(cur, "nl")>> \o SplitLines(Tail(stream), <<>>)
         ELSE SplitLines(Tail(stream), Append(cur, Head(stream)))

\* whether a line is the line of flush_last_log
IsSummary(line) == Head(line) = Head(Summary(0))

\* C16: in the stream of appended bytes, before logger_shutdown is called, a
\* summary line comes right after a record (the stored copy of the run), and
\* what comes right after the summary line is a record whose body differs from
\* that copy: no other line stands between the summary and the record that
\* ended the run.
C16_SummaryThenRecord ==
    LET L == SplitLines(appended, <<>>) IN
    pc[Stopper] = "idle" =>
        \A i \in 1 .. Len(L) :
            IsSummary(L[i]) =>
                /\ i > 1
                /\ ~IsSummary(L[i - 1])
                /\ i < Len(L) =>
                      /\ ~IsSummary(L[i + 1])
                      /\ Tail(L[i + 1]) # Tail(L[i - 1])

\* ---------------------------------------------------------- C19
\* C19 as stated: whenever the flusher holds the mutex, in the shutdown drain
\* too, the passive buffer holds no bytes.
C19_PassiveEmptyUnderMutex ==
    mutex = Flusher => buffers[Other(currbuffer)] = <<>>

\* C19, amended: whenever the flusher is outside flush_pending_io, and so at
\* every swap of the flush loop and of the shutdown drain, the passive buffer
\* holds no bytes, and the buffer a swap makes active is empty; inside the
\* flush_pending_io of the shutdown drain the flusher holds the mutex while
\* the passive buffer still holds the bytes being written.
C19_PassiveEmptyAtSwap ==
    /\ [](pc[Flusher] \notin {"flush", "io", "sync", "dio", "dsync"} =>
             buffers[Other(currbuffer)] = <<>>)
    /\ [][currbuffer' # currbuffer =>
            /\ buffers[currbuffer'] = <<>>
            /\ buffers'[currbuffer'] = <<>>]_vars

C19_Witness ==
    /\ pc[Flusher] = "dio"
    /\ mutex = Flusher
    /\ buffers[Other(currbuffer)] # <<>>
    /\ towrite < ret
    /\ Persisted # <<>>
    /\ Len(opened) >= 2

\* ---------------------------------------------------------- C17
\* C17: with every thread scheduled and storage that takes bytes, a producer
\* that waits for buffer space in do_add_log_entry eventually returns from
\* logger_log, whatever the record size and also when shutdown is requested
\* while it waits.
C17_BlockedAppendCompletes ==
    \A p \in Producers :
        (pc[p] \in {"sum_wait", "rec_wait"}) ~> (pc[p] = "idle")

====
